---- MODULE Spec2Model ----
(***************************************************************************)
(* A model of kaeru-tools: the locale resolver, the prompt catalog loader  *)
(* and the KaruAssistant facade (constructor, ask, summarize,              *)
(* getKeyPoints, translate).                                               *)
(*                                                                         *)
(* A JavaScript string is modelled as a sequence of one-character strings, *)
(* so that String.prototype.replace, trim, toLowerCase and the regular     *)
(* expressions of the source are computed character by character.          *)
(***************************************************************************)
EXTENDS Integers, Sequences, FiniteSets, TLC

\* ------------------------------------------------------------------------
\* Bounds of the model
\* ------------------------------------------------------------------------

\* Number of concurrent callers of the facade.
NumCallers == 2

\* Number of subtags a locale input is joined from.
MaxSubtags == 2

\* Number of lines a response text is joined from.
MaxLines == 2

\* ------------------------------------------------------------------------
\* JavaScript values
\* ------------------------------------------------------------------------

\* null / undefined: a value that is no text, no catalog and no number
Null == <<"<null>">>

\* Nothing was thrown
NoError == "none"

\* a ?? b, and a || b where a is undefined or a truthy value
Coalesce(a, b) == IF a # Null THEN a ELSE b

Min(S) == CHOOSE x \in S : \A y \in S : x <= y

Max(S) == CHOOSE x \in S : \A y \in S : x >= y

\* s[from..] of a string
Rest(s, from) == SubSeq(s, from, Len(s))

\* Whether pat occurs in s at index i.
MatchAt(s, i, pat) ==
    /\ i >= 1
    /\ i + Len(pat) - 1 <= Len(s)
    /\ SubSeq(s, i, i + Len(pat) - 1) = pat

\* The first index >= from at which pat occurs in s, 0 when there is none.
IndexFrom(s, from, pat) ==
    LET hits == {i \in from..Len(s) : MatchAt(s, i, pat)}
    IN  IF hits = {} THEN 0 ELSE Min(hits)

UpperToLower ==
    [A |-> "a", B |-> "b", C |-> "c", D |-> "d", E |-> "e", F |-> "f",
     G |-> "g", H |-> "h", I |-> "i", J |-> "j", K |-> "k", L |-> "l",
     M |-> "m", N |-> "n", O |-> "o", P |-> "p", Q |-> "q", R |-> "r",
     S |-> "s", T |-> "t", U |-> "u", V |-> "v", W |-> "w", X |-> "x",
     Y |-> "y", Z |-> "z"]

LowerChar(c) == IF c \in DOMAIN UpperToLower THEN UpperToLower[c] ELSE c

\* String.prototype.toLowerCase
ToLowerCase(s) == [i \in 1..Len(s) |-> LowerChar(s[i])]

IsAlpha(c) == LowerChar(c) \in {UpperToLower[k] : k \in DOMAIN UpperToLower}

\* \d of a regular expression
IsDigit(c) == c \in {"0", "1", "2", "3", "4", "5", "6", "7", "8", "9"}

\* \s of a regular expression, and the characters trim() removes
IsSpace(c) == c \in {" ", "\t", "\n", "\r"}

\* What . of a regular expression does not match
IsLineTerminator(c) == c \in {"\n", "\r"}

\* String.prototype.trim
Trim(s) ==
    LET keep == {i \in 1..Len(s) : ~IsSpace(s[i])}
    IN  IF keep = {} THEN <<>> ELSE SubSeq(s, Min(keep), Max(keep))

\* The grave accent character (U+0060), which a string literal cannot hold.
Backtick == "U+0060"

\* GetSubstitution of String.prototype.replace for a pattern without capture
\* groups: in the replacement text $$ is a dollar sign, $& the matched text,
\* dollar-backtick the text before the match and dollar-apostrophe the text
\* after it; any other dollar sign stays as it is.
RECURSIVE GetSubstitution(_, _, _, _)
GetSubstitution(repl, matched, before, after) ==
    IF repl = <<>> THEN <<>>
    ELSE IF repl[1] = "$" /\ Len(repl) >= 2 /\ repl[2] \in {"$", "&", Backtick, "'"}
    THEN (CASE repl[2] = "$" -> <<"$">>
            [] repl[2] = "&" -> matched
            [] repl[2] = Backtick -> before
            [] OTHER -> after)
         \o GetSubstitution(Rest(repl, 3), matched, before, after)
    ELSE <<repl[1]>> \o GetSubstitution(Tail(repl), matched, before, after)

\* s.replace(pat, repl) with a string pattern: the first occurrence only.
ReplaceFirst(s, pat, repl) ==
    LET i == IndexFrom(s, 1, pat)
    IN  IF i = 0 THEN s
        ELSE SubSeq(s, 1, i - 1)
             \o GetSubstitution(repl, pat, SubSeq(s, 1, i - 1), Rest(s, i + Len(pat)))
             \o Rest(s, i + Len(pat))

\* s.replace(/pat/g, repl) for a pattern that is a literal text: every
\* occurrence, left to right, of the original string.
RECURSIVE ReplaceAllFrom(_, _, _, _)
ReplaceAllFrom(s, from, pat, repl) ==
    LET i == IndexFrom(s, from, pat)
    IN  IF i = 0 THEN Rest(s, from)
        ELSE SubSeq(s, from, i - 1)
             \o GetSubstitution(repl, pat, SubSeq(s, 1, i - 1), Rest(s, i + Len(pat)))
             \o ReplaceAllFrom(s, i + Len(pat), pat, repl)

ReplaceAll(s, pat, repl) == ReplaceAllFrom(s, 1, pat, repl)

\* ------------------------------------------------------------------------
\* Enumerations and the locale catalog
\* ------------------------------------------------------------------------

\* enum Languages: the codes the locale catalog maps to
Languages ==
    {<<"e", "n">>, <<"e", "s">>, <<"f", "r">>, <<"d", "e">>, <<"i", "t">>,
     <<"p", "t">>, <<"r", "u">>, <<"z", "h">>, <<"j", "a">>, <<"k", "o">>,
     <<"a", "r">>, <<"h", "i">>, <<"t", "r">>}

\* LOCALE_TO_LANGUAGE, keyed by the locale as a text
LOCALE_TO_LANGUAGE ==
    (<<"e", "n", "-", "u", "s">> :> <<"e", "n">>) @@ (<<"e", "n", "-", "g", "b">> :> <<"e", "n">>) @@
    (<<"e", "n">> :> <<"e", "n">>) @@
    (<<"e", "s", "-", "e", "s">> :> <<"e", "s">>) @@ (<<"e", "s", "-", "m", "x">> :> <<"e", "s">>) @@
    (<<"e", "s">> :> <<"e", "s">>) @@
    (<<"f", "r", "-", "f", "r">> :> <<"f", "r">>) @@ (<<"f", "r">> :> <<"f", "r">>) @@
    (<<"d", "e", "-", "d", "e">> :> <<"d", "e">>) @@ (<<"d", "e">> :> <<"d", "e">>) @@
    (<<"i", "t", "-", "i", "t">> :> <<"i", "t">>) @@ (<<"i", "t">> :> <<"i", "t">>) @@
    (<<"p", "t", "-", "b", "r">> :> <<"p", "t">>) @@ (<<"p", "t">> :> <<"p", "t">>) @@
    (<<"r", "u", "-", "r", "u">> :> <<"r", "u">>) @@ (<<"r", "u">> :> <<"r", "u">>) @@
    (<<"z", "h", "-", "c", "n">> :> <<"z", "h">>) @@
    (<<"z", "h", "-", "h", "a", "n", "s">> :> <<"z", "h">>) @@ (<<"z", "h">> :> <<"z", "h">>) @@
    (<<"j", "a", "-", "j", "p">> :> <<"j", "a">>) @@ (<<"j", "a">> :> <<"j", "a">>) @@
    (<<"k", "o", "-", "k", "r">> :> <<"k", "o">>) @@ (<<"k", "o">> :> <<"k", "o">>) @@
    (<<"a", "r", "-", "s", "a">> :> <<"a", "r">>) @@ (<<"a", "r">> :> <<"a", "r">>) @@
    (<<"h", "i", "-", "i", "n">> :> <<"h", "i">>) @@ (<<"h", "i">> :> <<"h", "i">>) @@
    (<<"t", "r", "-", "t", "r">> :> <<"t", "r">>) @@ (<<"t", "r">> :> <<"t", "r">>)

\* LOCALE_TO_LANGUAGE[key]: undefined for a key the record does not hold
LocaleLookup(key) ==
    IF key \in DOMAIN LOCALE_TO_LANGUAGE THEN LOCALE_TO_LANGUAGE[key] ELSE Null

\* Languages.EN, the default language of summarize and getKeyPoints
LangEN == <<"e", "n">>

\* enum SummaryLength, as texts
LengthShort == <<"s", "h", "o", "r", "t">>
LengthMedium == <<"m", "e", "d", "i", "u", "m">>
LengthLong == <<"l", "o", "n", "g">>

\* enum SummaryStyle, as texts
StyleProfessional ==
    <<"p", "r", "o", "f", "e", "s", "s", "i", "o", "n", "a", "l">>
StyleCasual == <<"c", "a", "s", "u", "a", "l">>

\* lengthMap of summarize
lengthMap ==
    (LengthShort :>
        <<"2", "-", "3", " ", "s", "e", "n", "t", "e", "n", "c", "e", "s">>) @@
    (LengthMedium :>
        <<"1", "-", "2", " ", "p", "a", "r", "a", "g", "r", "a", "p", "h", "s">>) @@
    (LengthLong :>
        <<"3", "-", "4", " ", "p", "a", "r", "a", "g", "r", "a", "p", "h", "s">>)

\* The placeholders of the prompt templates
PhLanguage == <<"{", "l", "a", "n", "g", "u", "a", "g", "e", "}">>
PhLength == <<"{", "l", "e", "n", "g", "t", "h", "}">>
PhStyle == <<"{", "s", "t", "y", "l", "e", "}">>
PhText == <<"{", "t", "e", "x", "t", "}">>
PhCount == <<"{", "c", "o", "u", "n", "t", "}">>
PhTargetLanguage == 
    <<"{", "t", "a", "r", "g", "e", "t", "L", "a", "n", "g", "u",
      "a", "g", "e", "}">>
PhFromLanguage == 
    <<"{", "f", "r", "o", "m", "L", "a", "n", "g", "u", "a", "g",
      "e", "}">>

\* ------------------------------------------------------------------------
\* The regular expressions of translate
\* ------------------------------------------------------------------------

\* The number of digits of an emoji id: \d{18}
IdDigits == 18

\* /<a?:.+?:\d{18}>/ tried at index i: the index of the closing > of the
\* match, 0 when it does not match there. After < and the optional a comes
\* a colon; .+? takes the fewest characters (one at least, none of them a
\* line terminator) so that a colon, IdDigits digits and > follow.
EmojiEnd(s, i) ==
    LET b == IF MatchAt(s, i, <<"<", "a", ":">>) THEN i + 3
             ELSE IF MatchAt(s, i, <<"<", ":">>) THEN i + 2
             ELSE 0
        colons == {j \in (b + 1)..(Len(s) - IdDigits - 1) :
                     /\ s[j] = ":"
                     /\ \A k \in b..(j - 1) : ~IsLineTerminator(s[k])
                     /\ \A k \in (j + 1)..(j + IdDigits) : IsDigit(s[k])
                     /\ s[j + IdDigits + 1] = ">"}
    IN  IF b = 0 \/ colons = {} THEN 0 ELSE Min(colons) + IdDigits + 1

\* text.replace(/<a?:.+?:\d{18}>/g, ""): every match, left to right, removed
RECURSIVE StripEmojiFrom(_, _)
StripEmojiFrom(s, from) ==
    LET starts == {i \in from..Len(s) : EmojiEnd(s, i) # 0}
    IN  IF starts = {} THEN Rest(s, from)
        ELSE SubSeq(s, from, Min(starts) - 1)
             \o StripEmojiFrom(s, EmojiEnd(s, Min(starts)) + 1)

StripEmoji(s) == StripEmojiFrom(s, 1)

\* The labels of the response
LabelCleaned == <<"C", "l", "e", "a", "n", "e", "d", ":">>
LabelTranslated == <<"T", "r", "a", "n", "s", "l", "a", "t", "e", "d", ":">>

\* \s*(.+) tried at index e, right after a label: the index at which the
\* capture group starts, 0 when it does not match. \s* takes as many white
\* space characters as it can and gives them back one by one until the next
\* character is one that . matches.
CaptureStart(raw, e) ==
    LET n == IF \A k \in e..Len(raw) : IsSpace(raw[k]) THEN Len(raw) - e + 1
             ELSE Min({k \in e..Len(raw) : ~IsSpace(raw[k])}) - e
        ok == {m \in 0..n : e + m <= Len(raw) /\ ~IsLineTerminator(raw[e + m])}
    IN  IF e > Len(raw) + 1 \/ ok = {} THEN 0 ELSE e + Max(ok)

\* (.+) from index p: the characters up to the next line terminator
RestOfLine(raw, p) ==
    LET stops == {k \in p..Len(raw) : IsLineTerminator(raw[k])}
    IN  IF stops = {} THEN Rest(raw, p) ELSE SubSeq(raw, p, Min(stops) - 1)

\* The match without the i flag: the label in its own case only
LabelMatchCaseSensitive(raw, label) ==
    LET hits == {i \in 1..Len(raw) :
                   MatchAt(raw, i, label) /\ CaptureStart(raw, i + Len(label)) # 0}
    IN  IF hits = {} THEN Null
        ELSE RestOfLine(raw, CaptureStart(raw, Min(hits) + Len(label)))

\* raw.match(/<label>\s*(.+)/i)?.[1]: the capture group of the first match
\* (the leftmost index at which the whole pattern matches, the label in any
\* case), undefined when the pattern matches nowhere.
LabelMatch(raw, label) ==
    LET hits == {i \in 1..Len(raw) :
                   /\ MatchAt(ToLowerCase(raw), i, ToLowerCase(label))
                   /\ CaptureStart(raw, i + Len(label)) # 0}
    IN  IF hits = {} THEN Null
        ELSE RestOfLine(raw, CaptureStart(raw, Min(hits) + Len(label)))

\* ------------------------------------------------------------------------
\* PromptLoader
\* ------------------------------------------------------------------------

\* The names of the templates the facade asks for
PromptNames == {"summarize", "keypoints", "translate"}

\* Whether a text or undefined value is falsy (undefined, or the empty
\* string)
Falsy(v) == v = Null \/ v = <<>>

\* The null that PromptLoader.prompts starts as, and that JSON.parse returns
\* for the JSON text null
JsNull == [kind |-> "null"]

\* A parsed catalog: entries maps the names it holds to their templates
JsObject(entries) == [kind |-> "object", entries |-> entries]

\* prompts.json is absent: readFileSync throws. Any other state of the file
\* is the value JSON.parse returns for it.
Enoent == [kind |-> "enoent"]

\* A load() that reads the file whether or not the cache is populated
PromptLoaderLoadAlways(cache, disk) ==
    IF disk.kind = "enoent" THEN [cache |-> cache, threw |-> "ENOENT"]
    ELSE [cache |-> disk, threw |-> NoError]

\* PromptLoader.load() with the cache and the file as they are: the value
\* of PromptLoader.prompts after it, and what it threw (when nothing, it
\* returns that cache). A cache that is null is falsy, an object is truthy.
PromptLoaderLoad(cache, disk) ==
    IF cache.kind # "null" THEN [cache |-> cache, threw |-> NoError]
    ELSE IF disk.kind = "enoent" THEN [cache |-> cache, threw |-> "ENOENT"]
    ELSE [cache |-> disk, threw |-> NoError]

\* A lookup that gives a template of its own for a name the catalog lacks
TemplateOfFallback(catalog, key) ==
    IF key \in DOMAIN catalog.entries THEN catalog.entries[key] ELSE <<"{", "t", "e", "x", "t", "}">>

\* prompts[key] ?? null of PromptLoader.get, then ?.template of the caller:
\* the template text, Null for a name the catalog does not hold.
TemplateOf(catalog, key) ==
    IF key \in DOMAIN catalog.entries THEN catalog.entries[key] ELSE Null

\* PromptLoader.get(key)?.template: what it throws, if anything, and the
\* template it yields. Reading a key of the null that load() returned is a
\* TypeError.
PromptLoaderGet(cache, disk, key) ==
    LET l == PromptLoaderLoad(cache, disk)
    IN  IF l.threw # NoError
        THEN [cache |-> l.cache, threw |-> l.threw, template |-> Null]
        ELSE IF l.cache.kind = "null"
        THEN [cache |-> l.cache, threw |-> "TypeError", template |-> Null]
        ELSE [cache |-> l.cache, threw |-> NoError, template |-> TemplateOf(l.cache, key)]

\* ------------------------------------------------------------------------
\* KaruAssistant: the prompts of the four operations
\* ------------------------------------------------------------------------

\* maxPoints of getKeyPoints when the caller leaves it out
DefaultMaxPoints == 5

\* The arguments of one call of the facade; Null is an argument left out
\* (maxPoints, a number, is DefaultMaxPoints then).
CallArgs(method, text, language, length, style, maxPoints, target, from) ==
    [method |-> method, text |-> text, language |-> language, length |-> length,
     style |-> style, maxPoints |-> maxPoints, target |-> target, from |-> from]

\* A default parameter value: used when the argument is undefined
Default(v, d) == IF v = Null THEN d ELSE v

\* Number.prototype.toString of a natural number
RECURSIVE NumToString(_)
NumToString(n) ==
    LET digit == <<"0", "1", "2", "3", "4", "5", "6", "7", "8", "9">>
    IN  IF n < 10 THEN <<digit[n + 1]>>
        ELSE NumToString(n \div 10) \o <<digit[(n % 10) + 1]>>

\* The template each operation asks PromptLoader for
TemplateName(method) ==
    CASE method = "summarize" -> "summarize"
      [] method = "getKeyPoints" -> "keypoints"
      [] method = "translate" -> "translate"

\* The error each operation throws when its template is not found
NotFoundError(method) ==
    CASE method = "summarize" -> "Summarize prompt template not found"
      [] method = "getKeyPoints" -> "Key points prompt template not found"
      [] method = "translate" -> "Translate prompt template not found"

\* The prompt of summarize
SummarizePrompt(template, a) ==
    LET language == Default(a.language, LangEN)
        length == Default(a.length, LengthMedium)
        style == Default(a.style, StyleProfessional)
        p1 == ReplaceFirst(template, PhLanguage, language)
        p2 == ReplaceFirst(p1, PhLength, lengthMap[length])
        p3 == ReplaceFirst(p2, PhStyle, style)
    IN  ReplaceFirst(p3, PhText, a.text)

\* The prompt of getKeyPoints
KeyPointsPrompt(template, a) ==
    LET language == Default(a.language, LangEN)
        p1 == ReplaceFirst(template, PhCount, NumToString(a.maxPoints))
        p2 == ReplaceFirst(p1, PhLanguage, language)
    IN  ReplaceFirst(p2, PhText, a.text)

\* inputText of translate: the emoji markup removed, then trimmed
CleanInput(text) == Trim(StripEmoji(text))

\* fromLangStr of translate
FromLangStr(from) == IF Falsy(from) THEN <<>> ELSE from

\* The prompt of translate
TranslatePrompt(template, a) ==
    LET p1 == ReplaceAll(template, PhTargetLanguage, a.target)
        p2 == ReplaceFirst(p1, PhText, CleanInput(a.text))
    IN  ReplaceAll(p2, PhFromLanguage, FromLangStr(a.from))

BuildPrompt(template, a) ==
    CASE a.method = "summarize" -> SummarizePrompt(template, a)
      [] a.method = "getKeyPoints" -> KeyPointsPrompt(template, a)
      [] a.method = "translate" -> TranslatePrompt(template, a)

\* How a call ends
Fulfilled(v) == [kind |-> "fulfilled", value |-> v]

Rejected(e) == [kind |-> "rejected", error |-> e]

Pending == [kind |-> "pending"]

\* cleanedMatch?.[1]?.trim()
TrimmedCapture(raw, label) ==
    LET m == LabelMatch(raw, label)
    IN  IF m = Null THEN Null ELSE Trim(m)

\* translate after the remote call: the response parsed
TranslateResult(response) ==
    LET raw == Trim(response)
        cleaned == TrimmedCapture(raw, LabelCleaned)
        translated == TrimmedCapture(raw, LabelTranslated)
    IN  IF Falsy(cleaned) \/ Falsy(translated)
        THEN Rejected("Malformed response from AI")
        ELSE Fulfilled([cleaned |-> cleaned, translated |-> translated])

\* What an operation does with the text of the model's response
OnResponse(a, response) ==
    IF a.method = "translate" THEN TranslateResult(response)
    ELSE Fulfilled(response)

\* An operation that catches the error and returns an empty text
OnRemoteErrorSwallowed(e) == Fulfilled(<<>>)

\* What an operation does with the error of a failed remote call: none of
\* the four catches it, so the call is rejected with it.
OnRemoteError(e) == Rejected(e)

\* ------------------------------------------------------------------------
\* KaruAssistant: the constructor
\* ------------------------------------------------------------------------

\* options.apiKey ?? process.env.GOOGLE_AI_API_KEY ?? globalThis.GOOGLE_AI_API_KEY
ResolveApiKey(in) == Coalesce(Coalesce(in.option, in.env), in.global)

\* new KaruAssistant(options): throws before new GoogleGenerativeAI(apiKey)
\* when the key is falsy, else creates the client with the key.
Construct(in) ==
    LET apiKey == ResolveApiKey(in)
    IN  IF Falsy(apiKey)
        THEN [kind |-> "threw", error |-> "Missing API key", client |-> Null]
        ELSE [kind |-> "constructed", error |-> NoError, client |-> apiKey]

\* ------------------------------------------------------------------------
\* resolveLanguageFromLocale
\* ------------------------------------------------------------------------

\* The subtags of a language tag: the texts between its hyphens
RECURSIVE Subtags(_)
Subtags(s) ==
    LET i == IndexFrom(s, 1, <<"-">>)
    IN  IF i = 0 THEN <<s>> ELSE <<SubSeq(s, 1, i - 1)>> \o Subtags(Rest(s, i + 1))

AllAlpha(t) == \A i \in 1..Len(t) : IsAlpha(t[i])

AllDigit(t) == \A i \in 1..Len(t) : IsDigit(t[i])

AllAlnum(t) == \A i \in 1..Len(t) : IsAlpha(t[i]) \/ IsDigit(t[i])

\* unicode_language_subtag: 2-3 or 5-8 letters
IsLanguageSubtag(t) == AllAlpha(t) /\ Len(t) \in {2, 3, 5, 6, 7, 8}

\* unicode_script_subtag: 4 letters
IsScriptSubtag(t) == AllAlpha(t) /\ Len(t) = 4

\* unicode_region_subtag: 2 letters or 3 digits
IsRegionSubtag(t) == (AllAlpha(t) /\ Len(t) = 2) \/ (AllDigit(t) /\ Len(t) = 3)

\* unicode_variant_subtag: 5-8 letters or digits, or a digit and 3 of them
IsVariantSubtag(t) ==
    /\ AllAlnum(t)
    /\ Len(t) \in 5..8 \/ (Len(t) = 4 /\ IsDigit(t[1]))

\* The tail of a tag after language, script and region: variants, none
\* twice, then extensions, each a one-character singleton followed by one or
\* more subtags of 2-8 letters or digits (the grammar of the extensions other
\* than u, t and x, which have their own).
RECURSIVE ValidExtensions(_, _)
ValidExtensions(ts, open) ==
    IF ts = <<>> THEN ~open
    ELSE IF Len(ts[1]) = 1 /\ AllAlnum(ts[1]) THEN ~open /\ ValidExtensions(Tail(ts), TRUE)
    ELSE AllAlnum(ts[1]) /\ Len(ts[1]) \in 2..8 /\ ValidExtensions(Tail(ts), FALSE)

RECURSIVE ValidTail(_, _)
ValidTail(ts, seen) ==
    IF ts = <<>> THEN TRUE
    ELSE IF IsVariantSubtag(ts[1])
    THEN ToLowerCase(ts[1]) \notin seen
         /\ ValidTail(Tail(ts), seen \cup {ToLowerCase(ts[1])})
    ELSE Len(ts[1]) = 1 /\ AllAlnum(ts[1]) /\ ValidExtensions(Tail(ts), TRUE)

\* Whether new Intl.Locale(tag) accepts the tag (it throws a RangeError for
\* a tag that is not a structurally valid language tag).
IsStructurallyValidLanguageTag(tag) ==
    LET ts == Subtags(tag)
        r1 == Tail(ts)
        r2 == IF r1 # <<>> /\ IsScriptSubtag(r1[1]) THEN Tail(r1) ELSE r1
        r3 == IF r2 # <<>> /\ IsRegionSubtag(r2[1]) THEN Tail(r2) ELSE r2
    IN  IsLanguageSubtag(ts[1]) /\ ValidTail(r3, {})

\* new Intl.Locale(locale).language: the language subtag in lower case,
\* Null when the constructor throws.
IntlLanguage(locale) ==
    IF IsStructurallyValidLanguageTag(locale)
    THEN ToLowerCase(Subtags(locale)[1])
    ELSE Null

Returned(v) == [kind |-> "returned", value |-> v]

Threw(e) == [kind |-> "threw", error |-> e]

\* A resolver without the fallback to the language subtag
resolveExactOnly(locale) ==
    IF Falsy(locale) THEN Returned(Null)
    ELSE IF IntlLanguage(locale) = Null THEN Threw("RangeError")
    ELSE Returned(LocaleLookup(ToLowerCase(locale)))

\* resolveLanguageFromLocale(locale)
resolveLanguageFromLocale(locale) ==
    IF Falsy(locale) THEN Returned(Null)
    ELSE LET lowerLocale == ToLowerCase(locale)
             language == IntlLanguage(locale)
         IN  IF language = Null THEN Threw("RangeError")
             ELSE LET rawLang == ToLowerCase(language)
                  IN  Returned(Coalesce(LocaleLookup(lowerLocale), LocaleLookup(rawLang)))

\* ------------------------------------------------------------------------
\* State
\* ------------------------------------------------------------------------

VARIABLES
    file,        \* prompts.json on disk: Enoent, or the value JSON.parse gives
    prompts,     \* PromptLoader.prompts, the cache
    firstLoad,   \* history: the first catalog the cache was populated with
    pc,          \* per caller: "idle", "awaiting" (the remote call), "done"
    op,          \* per caller: the arguments of its call
    tmpl,        \* per caller, history: what PromptLoader.get(..)?.template gave
    sent,        \* per caller: the prompts passed to model.generateContent
    remote,      \* per caller, history: how its remote call ended
    outcome,     \* per caller: how its call ended
    ctorIn,      \* the three sources of the API key
    ctorOut,     \* the constructor's result
    resolveIn,   \* the argument of resolveLanguageFromLocale
    resolveOut   \* its result

vars ==
    <<file, prompts, firstLoad, pc, op, tmpl, sent, remote, outcome,
      ctorIn, ctorOut, resolveIn, resolveOut>>

loaderVars == <<file, prompts, firstLoad>>

callerVars == <<pc, op, tmpl, sent, remote, outcome>>

ctorVars == <<ctorIn, ctorOut>>

resolveVars == <<resolveIn, resolveOut>>

Callers == 1..NumCallers

\* No call made, no template asked for yet
Unset == [kind |-> "unset"]

\* ------------------------------------------------------------------------
\* Operations
\* ------------------------------------------------------------------------

\* A caller calls ask, summarize, getKeyPoints or translate with arguments
\* a: the operation runs to its await of model.generateContent, or throws
\* before it. ask sends its text as is; the others ask PromptLoader for
\* their template first (which loads the catalog when the cache is null).
Invoke(c, a) ==
    /\ ctorOut.kind = "constructed"
    /\ pc[c] = "idle"
    /\ op' = [op EXCEPT ![c] = a]
    /\ remote' = remote
    /\ UNCHANGED <<file, ctorVars, resolveVars>>
    /\ IF a.method = "ask"
       THEN /\ sent' = [sent EXCEPT ![c] = Append(@, a.text)]
            /\ pc' = [pc EXCEPT ![c] = "awaiting"]
            /\ UNCHANGED <<prompts, firstLoad, tmpl, outcome>>
       ELSE LET g == PromptLoaderGet(prompts, file, TemplateName(a.method))
            IN  /\ prompts' = g.cache
                /\ firstLoad' = IF firstLoad.kind = "null" THEN g.cache ELSE firstLoad
                /\ IF g.threw # NoError
                   THEN /\ outcome' = [outcome EXCEPT ![c] = Rejected(g.threw)]
                        /\ pc' = [pc EXCEPT ![c] = "done"]
                        /\ UNCHANGED <<tmpl, sent>>
                   ELSE /\ tmpl' = [tmpl EXCEPT ![c] = Returned(g.template)]
                        /\ IF Falsy(g.template)
                           THEN /\ outcome' = [outcome EXCEPT ![c] =
                                                 Rejected(NotFoundError(a.method))]
                                /\ pc' = [pc EXCEPT ![c] = "done"]
                                /\ UNCHANGED sent
                           ELSE /\ sent' = [sent EXCEPT ![c] =
                                              Append(@, BuildPrompt(g.template, a))]
                                /\ pc' = [pc EXCEPT ![c] = "awaiting"]
                                /\ UNCHANGED outcome

\* The remote call of caller c returns a response with the text r: the
\* operation resumes after its await and ends.
RemoteResolve(c, r) ==
    /\ pc[c] = "awaiting"
    /\ remote' = [remote EXCEPT ![c] = Fulfilled(r)]
    /\ outcome' = [outcome EXCEPT ![c] = OnResponse(op[c], r)]
    /\ pc' = [pc EXCEPT ![c] = "done"]
    /\ UNCHANGED <<loaderVars, op, tmpl, sent, ctorVars, resolveVars>>

\* The remote call of caller c fails with the error e.
RemoteReject(c, e) ==
    /\ pc[c] = "awaiting"
    /\ remote' = [remote EXCEPT ![c] = Rejected(e)]
    /\ outcome' = [outcome EXCEPT ![c] = OnRemoteError(e)]
    /\ pc' = [pc EXCEPT ![c] = "done"]
    /\ UNCHANGED <<loaderVars, op, tmpl, sent, ctorVars, resolveVars>>

\* The environment rewrites or removes prompts.json.
ChangeFile(f) ==
    /\ f # file
    /\ file' = f
    /\ UNCHANGED <<prompts, firstLoad, callerVars, ctorVars, resolveVars>>

\* new KaruAssistant(options)
NewAssistant ==
    /\ ctorOut.kind = "unset"
    /\ ctorOut' = Construct(ctorIn)
    /\ UNCHANGED <<ctorIn, loaderVars, callerVars, resolveVars>>

\* resolveLanguageFromLocale(locale)
Resolve ==
    /\ resolveOut.kind = "unset"
    /\ resolveIn # Null
    /\ resolveOut' = resolveLanguageFromLocale(resolveIn)
    /\ UNCHANGED <<resolveIn, loaderVars, callerVars, ctorVars>>

\* ------------------------------------------------------------------------
\* Inputs
\* ------------------------------------------------------------------------

\* An emoji id: IdDigits digits
EmojiId == [i \in 1..IdDigits |-> "1"]

\* <a:wave:111111111111111111>
EmojiWave == <<"<", "a", ":", "w", "a", "v", "e", ":">> \o EmojiId \o <<">">>

TextHi == <<"h", "i">>

\* Texts a caller passes to translate
TranslateTexts ==
    {TextHi,
     <<" ", "h", "i", " ">> \o EmojiWave \o <<" ", "y", "o", "\n">>,
     <<"<", ":", "w", ":">> \o EmojiId \o <<">">>,
     <<"<", "a", ":", "w", "a", "v", "e", ":", "1", "2", ">">>,
     <<"{", "f", "r", "o", "m", "L", "a", "n", "g", "u", "a", "g", "e", "}">>,
     <<"{", "t", "e", "x", "t", "}">>,
     <<"a", "$", "&", "b">>}

\* Target and source languages a caller passes to translate
TargetLanguages == {<<"f", "r">>, <<"{", "t", "e", "x", "t", "}">>}

FromLanguages == {Null, <<>>, <<"e", "n">>}

\* Texts a caller passes to summarize
SummarizeTexts == {TextHi, <<"$", "$", "5">>, <<"a", "$", "&", "b">>, <<"{",
    "t", "e", "x", "t", "}">>}

\* The templates of the catalogs: in version 1 every placeholder occurs
\* once, in version 2 twice, in version 3 some do not occur.
TemplateText(name, version) ==
    CASE name = "summarize" /\ version = 1 -> <<"{", "l", "a", "n", "g", "u",
        "a", "g", "e", "}", "|", "{", "l", "e", "n", "g", "t", "h", "}", "|",
            "{", "s", "t", "y", "l", "e", "}", "|", "{", "t", "e", "x", "t",
                "}">>
      [] name = "summarize" /\ version = 2 ->
            <<"{", "t", "e", "x", "t", "}", "{", "s", "t", "y", "l", "e",
                "}", "{", "l", "e", "n", "g", "t", "h", "}", "{", "l", "a",
                    "n", "g", "u", "a", "g", "e", "}", "{", "l", "a", "n",
                        "g", "u", "a", "g", "e", "}", "{", "l", "e", "n",
                            "g", "t", "h", "}", "{", "s", "t", "y", "l", "e",
                                "}", "{", "t", "e", "x", "t", "}">>
      [] name = "summarize" /\ version = 3 -> <<"s", "u", "m", " ", "{", "t",
          "e", "x", "t", "}">>
      [] name = "keypoints" /\ version = 1 -> <<"{", "c", "o", "u", "n", "t",
          "}", "|", "{", "l", "a", "n", "g", "u", "a", "g", "e", "}", "|",
              "{", "t", "e", "x", "t", "}">>
      [] name = "keypoints" /\ version = 2 -> <<"{", "c", "o", "u", "n", "t",
          "}", "{", "c", "o", "u", "n", "t", "}", "{", "t", "e", "x", "t",
              "}", "{", "t", "e", "x", "t", "}">>
      [] name = "keypoints" /\ version = 3 -> <<"k", "e", "y", " ", "{", "t",
          "e", "x", "t", "}">>
      [] name = "translate" /\ version = 1 -> <<"{", "f", "r", "o", "m", "L",
          "a", "n", "g", "u", "a", "g", "e", "}", ">", "{", "t", "a", "r",
              "g", "e", "t", "L", "a", "n", "g", "u", "a", "g", "e", "}",
                  ":", "{", "t", "e", "x", "t", "}">>
      [] name = "translate" /\ version = 2 ->
            <<"{", "t", "a", "r", "g", "e", "t", "L", "a", "n", "g", "u",
                "a", "g", "e", "}", "{", "t", "e", "x", "t", "}", "{", "f",
                    "r", "o", "m", "L", "a", "n", "g", "u", "a", "g", "e",
                        "}", "{", "t", "a", "r", "g", "e", "t", "L", "a",
                            "n", "g", "u", "a", "g", "e", "}", "{", "t", "e",
                                "x", "t", "}", "{", "f", "r", "o", "m", "L",
                                    "a", "n", "g", "u", "a", "g", "e", "}">>
      [] name = "translate" /\ version = 3 -> <<"t", "o", " ", "{", "t", "a",
          "r", "g", "e", "t", "L", "a", "n", "g", "u", "a", "g", "e", "}",
              ":", " ", "{", "t", "e", "x", "t", "}">>

\* prompts.json holding the templates of the given names
Catalog(names, version) == JsObject([n \in names |-> TemplateText(n, version)])

\* The states of prompts.json under concurrent callers: absent, the JSON
\* text null, complete, and (with other templates) lacking some of them.
FileStates ==
    {Enoent, JsNull, Catalog(PromptNames, 1),
     Catalog({"summarize"}, 3), Catalog({"keypoints"}, 3)}

\* The catalogs SpecPrompt starts from
PromptCatalogs == {Catalog(PromptNames, v) : v \in 1..3}

\* The calls of concurrent callers
SmallOps ==
    {CallArgs("ask", TextHi, Null, Null, Null, DefaultMaxPoints, Null, Null),
     CallArgs("summarize", TextHi, Null, Null, Null, DefaultMaxPoints, Null, Null),
     CallArgs("getKeyPoints", TextHi, Null, Null, Null, DefaultMaxPoints, Null, Null),
     CallArgs("translate", TextHi, Null, Null, Null, DefaultMaxPoints, <<"f", "r">>, Null)}

\* The calls of SpecPrompt
TranslateOps ==
    {CallArgs("translate", t, Null, Null, Null, DefaultMaxPoints, target, from) :
        t \in TranslateTexts, target \in TargetLanguages,
            from \in FromLanguages}

SummarizeOps ==
    {CallArgs("summarize", t, language, length, style, DefaultMaxPoints, Null, Null) :
        t \in SummarizeTexts, language \in {Null, <<"t", "r">>},
        length \in {Null, LengthShort, LengthLong}, style \in {Null, StyleCasual}}

KeyPointsOps ==
    {CallArgs("getKeyPoints", TextHi, language, Null, Null, maxPoints, Null,
        Null) :
        language \in {Null, <<"t", "r">>}, maxPoints \in {DefaultMaxPoints, 3, 12}}

PromptOps == TranslateOps \cup SummarizeOps \cup KeyPointsOps

\* Errors of the remote call
RemoteErrors == {"quota exceeded", "fetch failed"}

\* Response texts
ResponseGood == <<"C", "l", "e", "a", "n", "e", "d", ":", " ", "h", "i",
    "\n", "T", "r", "a", "n", "s", "l", "a", "t", "e", "d", ":", " ", "y",
        "o">>

SmallResponses == {ResponseGood, <<"y", "o">>}

\* The lines of the response texts
ResponseLines ==
    {<<"C", "l", "e", "a", "n", "e", "d", ":", " ", "h", "i">>, <<"c", "l",
        "e", "a", "n", "e", "d", ":", " ", " ", "h", "i", " ">>, <<"C", "l",
            "e", "a", "n", "e", "d", ":">>, <<"C", "l", "e", "a", "n", "e",
                "d", ":", " ">>,
     <<"T", "r", "a", "n", "s", "l", "a", "t", "e", "d", ":", " ", "y",
         "o">>, <<"T", "R", "A", "N", "S", "L", "A", "T", "E", "D", ":", "y",
             "o">>, <<"T", "r", "a", "n", "s", "l", "a", "t", "e", "d", ":">>,
     <<"n", "o", "t", "e">>, <<>>}

RECURSIVE JoinWith(_, _)
JoinWith(parts, sep) ==
    IF Len(parts) = 1 THEN parts[1]
    ELSE parts[1] \o sep \o JoinWith(Tail(parts), sep)

ParseResponses ==
    {JoinWith(ls,
        <<"\n">>) : ls \in UNION {[1..k -> ResponseLines] : k \in 1..MaxLines}}

\* The subtags the locale inputs are joined from
LocaleSubtags ==
    {<<"e", "n">>, <<"E", "N">>, <<"U", "S">>, <<"Z", "Z">>, <<"P", "T">>,
        <<"b", "r">>, <<"z", "h">>, <<"H", "a", "n", "s">>,
     <<"x", "x">>, <<"y", "y">>, <<"e">>, <<"e", "n", "_", "U", "S">>, <<"4",
         "1", "9">>, <<>>}

LocaleInputs ==
    {JoinWith(ts,
        <<"-">>) : ts \in UNION {[1..k -> LocaleSubtags] : k \in 1..MaxSubtags}}

\* The values of options.apiKey, process.env.GOOGLE_AI_API_KEY and
\* globalThis.GOOGLE_AI_API_KEY: undefined, the empty string, a key
ApiKeys == {Null, <<>>, <<"k", "1">>, <<"k", "2">>}

CtorInputs == [option : ApiKeys, env : ApiKeys, global : ApiKeys]

\* ------------------------------------------------------------------------
\* Specifications
\* ------------------------------------------------------------------------

NoCalls ==
    /\ pc = [c \in Callers |-> "idle"]
    /\ op = [c \in Callers |-> Unset]
    /\ tmpl = [c \in Callers |-> Unset]
    /\ sent = [c \in Callers |-> <<>>]
    /\ remote = [c \in Callers |-> Unset]
    /\ outcome = [c \in Callers |-> Pending]

Constructed ==
    /\ ctorIn = [option |-> <<"k", "1">>, env |-> Null, global |-> Null]
    /\ ctorOut = Construct(ctorIn)

NoResolve == resolveIn = Null /\ resolveOut = Unset

\* Concurrent callers of one assistant, prompts.json changing under them
Init ==
    /\ file \in FileStates
    /\ prompts = JsNull
    /\ firstLoad = JsNull
    /\ NoCalls /\ Constructed /\ NoResolve

Next ==
    \/ \E c \in Callers, a \in SmallOps : Invoke(c, a)
    \/ \E c \in Callers, r \in SmallResponses : RemoteResolve(c, r)
    \/ \E c \in Callers, e \in RemoteErrors : RemoteReject(c, e)
    \/ \E f \in FileStates : ChangeFile(f)

Spec == Init /\ [][Next]_vars

\* One call of summarize, getKeyPoints or translate, over the templates
\* and the arguments whose texts hold placeholders and dollar signs
InitPrompt ==
    /\ file \in PromptCatalogs
    /\ prompts = JsNull
    /\ firstLoad = JsNull
    /\ NoCalls /\ Constructed /\ NoResolve

NextPrompt ==
    \/ \E a \in PromptOps : Invoke(1, a)
    \/ RemoteResolve(1, ResponseGood)

SpecPrompt == InitPrompt /\ [][NextPrompt]_vars

\* One call of translate, over the response texts
InitParse ==
    /\ file \in {Catalog(PromptNames, 1), Catalog(PromptNames, 3), Catalog({"summarize"}, 1)}
    /\ prompts = JsNull
    /\ firstLoad = JsNull
    /\ NoCalls /\ Constructed /\ NoResolve

NextParse ==
    \/ \E a \in SmallOps : a.method = "translate" /\ Invoke(1, a)
    \/ \E r \in ParseResponses : RemoteResolve(1, r)
    \/ \E e \in RemoteErrors : RemoteReject(1, e)

SpecParse == InitParse /\ [][NextParse]_vars

\* The constructor, over the three sources of the key
InitCtor ==
    /\ ctorIn \in CtorInputs
    /\ ctorOut = Unset
    /\ file = Enoent /\ prompts = JsNull /\ firstLoad = JsNull
    /\ NoCalls /\ NoResolve

NextCtor == NewAssistant

SpecCtor == InitCtor /\ [][NextCtor]_vars

\* resolveLanguageFromLocale, over the locale inputs
InitResolve ==
    /\ resolveIn \in LocaleInputs
    /\ resolveOut = Unset
    /\ file = Enoent /\ prompts = JsNull /\ firstLoad = JsNull
    /\ NoCalls /\ Constructed

NextResolve == Resolve

SpecResolve == InitResolve /\ [][NextResolve]_vars

\* ------------------------------------------------------------------------
\* Properties
\* ------------------------------------------------------------------------

\* A template with placeholders filled in as a specification of the prompt
\* states it: scanning the template once from index i, every occurrence of a
\* placeholder of `every` and the first occurrence of a placeholder of
\* `once` is replaced by its value, taken as it is; all else is copied.
\* once and every are sets of <<placeholder, value>>.
RECURSIVE Substituted(_, _, _, _)
Substituted(t, i, once, every) ==
    LET hitE == {p \in every : MatchAt(t, i, p[1])}
        hitO == {p \in once : MatchAt(t, i, p[1])}
    IN  IF i > Len(t) THEN <<>>
        ELSE IF hitE # {}
        THEN LET p == CHOOSE q \in hitE : TRUE
             IN  p[2] \o Substituted(t, i + Len(p[1]), once, every)
        ELSE IF hitO # {}
        THEN LET p == CHOOSE q \in hitO : TRUE
             IN  p[2] \o Substituted(t, i + Len(p[1]), once \ {p}, every)
        ELSE <<t[i]>> \o Substituted(t, i + 1, once, every)

\* Caller c called the method and its prompt was sent to the model.
SentBy(c, method) ==
    pc[c] # "idle" /\ op[c].method = method /\ Len(sent[c]) = 1

\* The translate prompt as C1 states it
ExpectedTranslatePrompt(template, a) ==
    Substituted(template, 1,
                {<<PhText, Trim(StripEmoji(a.text))>>},
                {<<PhTargetLanguage, a.target>>,
                 <<PhFromLanguage, IF a.from = Null THEN <<>> ELSE a.from>>})

\* C1: the prompt translate sends is the "translate" template with every
\* {targetLanguage} replaced by the target language, every {fromLanguage} by
\* the source language (the empty string when left out) and the first {text}
\* by the cleaned input, for every text and language, those holding
\* placeholder tokens included: the cleaned text reaches the model unchanged.
C1_TranslatePromptIsTemplateFilled ==
    \A c \in Callers :
        SentBy(c, "translate") =>
            sent[c][1] = ExpectedTranslatePrompt(tmpl[c].value, op[c])

\* The summarize prompt as C10 states it
ExpectedSummarizePrompt(template, a) ==
    Substituted(template, 1,
                {<<PhLanguage,
                    IF a.language = Null THEN LangEN ELSE a.language>>,
                 <<PhLength, IF a.length = Null THEN lengthMap[LengthMedium]
                             ELSE lengthMap[a.length]>>,
                 <<PhStyle,
                     IF a.style = Null THEN StyleProfessional ELSE a.style>>,
                 <<PhText, a.text>>},
                {})

\* C10: the prompt summarize sends is the "summarize" template with only the
\* first occurrence of each of {language}, {length}, {style} and {text}
\* replaced by the language code, the phrase of the length, the style and the
\* caller's text; later occurrences stay; the defaults are EN, MEDIUM and
\* PROFESSIONAL.
C10_SummarizePromptIsTemplateFilled ==
    \A c \in Callers :
        SentBy(c, "summarize") =>
            sent[c][1] = ExpectedSummarizePrompt(tmpl[c].value, op[c])

\* The remote call of caller c's translate returned a response.
TranslateAnswered(c) ==
    pc[c] = "done" /\ op[c].method = "translate" /\ remote[c].kind = "fulfilled"

\* Whether the label occurs in the text, in any case
HasLabel(raw, label) == IndexFrom(ToLowerCase(raw), 1, ToLowerCase(label)) # 0

\* What follows the first occurrence of the label on its line, trimmed
ValueOnLine(raw, label) ==
    LET from == IndexFrom(ToLowerCase(raw), 1, ToLowerCase(label)) + Len(label)
        ends == {k \in from..Len(raw) : raw[k] \in {"\n", "\r"}}
    IN  Trim(SubSeq(raw, from, IF ends = {} THEN Len(raw) ELSE Min(ends) - 1))

\* The label is absent from the text or nothing follows it on its line.
LabelLacksValue(raw, label) ==
    ~HasLabel(raw, label) \/ ValueOnLine(raw, label) = <<>>

Malformed == Rejected("Malformed response from AI")

\* C2: translate fails with the malformed-response error whenever, in the
\* trimmed response, the "Cleaned:" or the "Translated:" label (in any case)
\* is absent or the value after the label on its line is empty once trimmed;
\* the error is raised only after the remote call has returned.
C2_MalformedWheneverLabelLacksValue ==
    \A c \in Callers :
        /\ TranslateAnswered(c) =>
              LET raw == Trim(remote[c].value)
              IN  LabelLacksValue(raw, LabelCleaned) \/ LabelLacksValue(raw,
                  LabelTranslated)
                      => outcome[c].kind = "rejected" /\ outcome[c] = Malformed
        /\ (outcome[c].kind = "rejected" /\ outcome[c] = Malformed)
              => remote[c].kind = "fulfilled"

\* C3: when the response holds both labeled lines (each label, in any case,
\* with a value after it on its line), translate returns as cleaned the
\* trimmed rest of the line after the first "Cleaned:" and as translated the
\* trimmed rest of the line after the first "Translated:".
C3_BothLabelsGiveTheirLines ==
    \A c \in Callers :
        TranslateAnswered(c) =>
            LET raw == Trim(remote[c].value)
            IN  ~LabelLacksValue(raw, LabelCleaned) /\ ~LabelLacksValue(raw,
                LabelTranslated)
                    => /\ outcome[c].kind = "fulfilled"
                       /\ outcome[c].value.cleaned = ValueOnLine(raw,
                           LabelCleaned)
                       /\ outcome[c].value.translated = ValueOnLine(raw,
                           LabelTranslated)

\* C3's case: "Cleaned: hi\nTranslated: yo" came back and was parsed, and so
\* was a response whose labels are in another case.
C3_Witness ==
    /\ TranslateAnswered(1)
    /\ remote[1].value = ResponseGood
    /\ outcome[1] = Fulfilled([cleaned |-> TextHi, translated |-> <<"y",
        "o">>])

\* C4: for summarize, getKeyPoints and translate, when the catalog lacks the
\* operation's template, PromptLoader.get gives null and the operation fails
\* with its configuration error, no prompt having been sent to the model.
C4_MissingTemplateFailsBeforeRemote ==
    \A c \in Callers :
        (/\ pc[c] # "idle"
         /\ op[c].method # "ask"
         /\ prompts.kind = "object"
         /\ TemplateName(op[c].method) \notin DOMAIN prompts.entries)
            => /\ tmpl[c].kind = "returned" => tmpl[c].value = Null
               /\ pc[c] = "done"
               /\ outcome[c].kind = "rejected"
               /\ outcome[c].error \in {NotFoundError(op[c].method),
                   "ENOENT", "TypeError"}
               /\ tmpl[c].kind = "returned" => outcome[c].error = NotFoundError(op[c].method)
               /\ sent[c] = <<>>
               /\ remote[c].kind = "unset"

\* C4's case: getKeyPoints found no "keypoints" template and failed.
C4_Witness ==
    \E c \in Callers :
        /\ pc[c] = "done"
        /\ op[c].method = "getKeyPoints"
        /\ tmpl[c].kind = "returned" /\ tmpl[c].value = Null
        /\ outcome[c] = Rejected("Key points prompt template not found")
        /\ sent[c] = <<>>


\* The text before the first hyphen of a locale: its primary language subtag
PrimarySubtag(locale) ==
    LET hyphens == {i \in 1..Len(locale) : locale[i] = "-"}
    IN  IF hyphens = {} THEN locale ELSE SubSeq(locale, 1, Min(hyphens) - 1)

\* The language C5 states for a locale
ExpectedLanguage(locale) ==
    LET exact == ToLowerCase(locale)
        primary == ToLowerCase(PrimarySubtag(locale))
    IN  IF exact \in DOMAIN LOCALE_TO_LANGUAGE THEN LOCALE_TO_LANGUAGE[exact]
        ELSE IF primary \in DOMAIN LOCALE_TO_LANGUAGE THEN LOCALE_TO_LANGUAGE[primary]
        ELSE Null

\* resolveLanguageFromLocale was called and has ended.
Resolved == resolveOut.kind # "unset"

C6_NeverThrows ==
    Resolved =>
        /\ resolveOut.kind = "returned"
        /\ ExpectedLanguage(resolveIn) = Null => resolveOut.value = Null

\* A source of the key holds a credential: a string that is not empty.
Present(key) == key # Null /\ key # <<>>

\* The first credential in the order option, environment, global
FirstPresent(in) ==
    IF Present(in.option) THEN in.option
    ELSE IF Present(in.env) THEN in.env
    ELSE in.global

\* C7: the constructor takes the credential from the explicit option, then
\* the environment variable, then the global variable; it fails exactly when
\* none of the three holds a credential, and then creates no client.
C7_FirstCredentialOrFailure ==
    ctorOut.kind # "unset" =>
        /\ ctorOut.kind = "threw"
              <=> ~(Present(ctorIn.option) \/ Present(ctorIn.env) \/ Present(ctorIn.global))
        /\ ctorOut.kind = "threw" => ctorOut.client = Null
        /\ ctorOut.kind = "constructed" => ctorOut.client = FirstPresent(ctorIn)

\* C8: each call of ask, summarize, getKeyPoints or translate makes at most
\* one remote call; when that call fails the operation is rejected with the
\* same error, and no other remote call follows; an operation that ends
\* fulfilled had its one remote call return.
C8_OneRemoteCallErrorsPropagate ==
    \A c \in Callers :
        /\ Len(sent[c]) <= 1
        /\ remote[c].kind # "unset" => Len(sent[c]) = 1
        /\ remote[c].kind = "rejected" =>
              /\ pc[c] = "done"
              /\ outcome[c].kind = "rejected"
              /\ outcome[c].error = remote[c].error
        /\ outcome[c].kind = "fulfilled" =>
              remote[c].kind = "fulfilled" /\ Len(sent[c]) = 1

\* C8's case: the remote calls of an ask and of a translate have failed, each
\* with its own error.
C8_Witness ==
    \E c1, c2 \in Callers :
        /\ pc[c1] = "done" /\ pc[c2] = "done"
        /\ op[c1].method = "ask" /\ op[c2].method = "translate"
        /\ remote[c1] = Rejected("quota exceeded")
        /\ outcome[c1] = Rejected("quota exceeded")
        /\ remote[c2] = Rejected("fetch failed")
        /\ outcome[c2] = Rejected("fetch failed")

\* Every template PromptLoader.get has given is that of the first catalog
\* the cache was populated with.
GetsGiveFirstLoad ==
    \A c \in Callers :
        tmpl[c].kind = "returned" =>
            /\ firstLoad.kind = "object"
            /\ tmpl[c].value = TemplateOf(firstLoad,
                TemplateName(op[c].method))

\* C9: under any interleaving of the callers, once the cache of the prompt
\* catalog is populated it is never written or read from the file again:
\* every later PromptLoader.get gives the value of the first load (null for
\* a name it lacks).
C9_CacheWrittenOnce ==
    /\ [][prompts.kind # "null" => prompts' = prompts]_vars
    /\ []GetsGiveFirstLoad

\* C9's case: two callers got their templates from the cache while
\* prompts.json holds something else than the cache.
C9_Witness ==
    \E c1, c2 \in Callers :
        /\ c1 # c2
        /\ tmpl[c1].kind = "returned" /\ tmpl[c2].kind = "returned"
        /\ pc[c1] = "done" /\ pc[c2] = "awaiting"
        /\ prompts.kind = "object"
        /\ file.kind = "object"
        /\ file # prompts
        /\ tmpl[c2].value # TemplateOf(file, TemplateName(op[c2].method))

====
